---- MODULE Spec2Model ----
(* Server actions of the dashboard (src/app/dashboard/customers/page.tsx):   *)
(* schema validation, one SQL statement, cache-path invalidation, redirect,  *)
(* and the credentials sign-in adapter.                                      *)
EXTENDS Integers, Sequences, FiniteSets, TLC

\* ------------------------------------------------------------------ bounds
\* Number of handler invocations that may be in flight together.
NumInv == 1
\* Number of concurrent readers of a listing view.
NumReaders == 1

Invs == 1..NumInv
Readers == 1..NumReaders

\* ------------------------------------------------------------------ values
\* A value handed to a schema: FormData.get gives a string or null; a key
\* left out of the object given to safeParse is undefined.
Null == [t |-> "null", s |-> ""]
Undefined == [t |-> "undefined", s |-> ""]
Str(s) == [t |-> "str", s |-> s]

\* formData.get(key): the value of the field, null when the field is absent.
Get(fd, k) == IF k \in DOMAIN fd THEN Str(fd[k]) ELSE Null

Char(s, i) == SubSeq(s, i, i)
Digits == {"0", "1", "2", "3", "4", "5", "6", "7", "8", "9"}
Letters ==
  {"a", "b", "c", "d", "e", "f", "g", "h", "i", "j", "k", "l", "m",
   "n", "o", "p", "q", "r", "s", "t", "u", "v", "w", "x", "y", "z",
   "A", "B", "C", "D", "E", "F", "G", "H", "I", "J", "K", "L", "M",
   "N", "O", "P", "Q", "R", "S", "T", "U", "V", "W", "X", "Y", "Z"}
Alnum == Letters \cup Digits

\* ------------------------------------------------------------------ zod
\* Messages zod produces by default.
RequiredMsg == "Required"
NullStringMsg == "Expected string, received null"
NanMsg == "Expected number, received nan"
InvalidEmailMsg == "Invalid email"
MinPasswordMsg == "String must contain at least 8 character(s)"
InvalidEnumMsg == "Invalid enum value. Expected 'pending' | 'paid'"

\* The type check every z.string() / z.enum() starts with: undefined gives
\* the required error, any other non-string the invalid_type error, and the
\* remaining checks of the field are then skipped.
TypeIssue(v, invalidTypeMsg) ==
  IF v.t = "undefined" THEN <<RequiredMsg>>
  ELSE IF v.t = "null" THEN <<invalidTypeMsg>>
  ELSE <<>>

\* z.string()
ZString(v) == TypeIssue(v, NullStringMsg)

\* z.string().optional(): undefined passes, everything else is z.string().
ZStringOptional(v) == IF v.t = "undefined" THEN <<>> ELSE ZString(v)

\* z.string().min(n, {message})
ZStringMin(v, n, msg) ==
  IF v.t # "str" THEN TypeIssue(v, NullStringMsg)
  ELSE IF Len(v.s) < n THEN <<msg>> ELSE <<>>

\* The local part of zod's email pattern:
\* (?!\.)(?!.*\.\.)([A-Z0-9_'+\-\.]*)[A-Z0-9_+-]
LocalOk(l) ==
  /\ Len(l) >= 1
  /\ \A i \in 1..Len(l) : Char(l, i) \in Alnum \cup {"_", "'", "+", "-", "."}
  /\ Char(l, 1) # "."
  /\ Char(l, Len(l)) \in Alnum \cup {"_", "+", "-"}
  /\ \A i \in 1..(Len(l) - 1) : ~(Char(l, i) = "." /\ Char(l, i + 1) = ".")

\* The domain part of zod's email pattern: ([A-Z0-9][A-Z0-9\-]*\.)+[A-Z]{2,}
DomainOk(d) ==
  LET dots == {i \in 1..Len(d) : Char(d, i) = "."}
      Prev(p) == IF \E q \in dots : q < p
                 THEN CHOOSE q \in dots : q < p /\ \A r \in dots : r < p => r <= q
                 ELSE 0
  IN /\ dots # {}
     /\ \A p \in dots :
          /\ p - Prev(p) >= 2
          /\ Char(d, Prev(p) + 1) \in Alnum
          /\ \A i \in (Prev(p) + 1)..(p - 1) : Char(d, i) \in Alnum \cup {"-"}
     /\ LET last == Prev(Len(d) + 1)
        IN /\ Len(d) - last >= 2
           /\ \A i \in (last + 1)..Len(d) : Char(d, i) \in Letters

IsEmail(s) ==
  LET ats == {i \in 1..Len(s) : Char(s, i) = "@"}
  IN /\ Cardinality(ats) = 1
     /\ LET k == CHOOSE i \in ats : TRUE
        IN LocalOk(SubSeq(s, 1, k - 1)) /\ DomainOk(SubSeq(s, k + 1, Len(s)))

\* z.string().email({message})
ZEmail(v, msg) ==
  IF v.t # "str" THEN TypeIssue(v, NullStringMsg)
  ELSE IF IsEmail(v.s) THEN <<>> ELSE <<msg>>

\* z.enum(['pending', 'paid'], {invalid_type_error})
ZStatus(v) ==
  IF v.t # "str" THEN TypeIssue(v, "Please select an invoice status.")
  ELSE IF v.s \in {"pending", "paid"} THEN <<>> ELSE <<InvalidEnumMsg>>

\* Number(x) of z.coerce.number(), in hundredths so that amount * 100 is an
\* integer: null is 0, undefined is NaN, the empty string is 0, a string of
\* the form [-]digits[.d[d]] is its value, and any other string is NaN.
DigitVal(c) ==
  CASE c = "0" -> 0 [] c = "1" -> 1 [] c = "2" -> 2 [] c = "3" -> 3
    [] c = "4" -> 4 [] c = "5" -> 5 [] c = "6" -> 6 [] c = "7" -> 7
    [] c = "8" -> 8 [] c = "9" -> 9

RECURSIVE DigitsVal(_)
DigitsVal(s) ==
  IF Len(s) = 0 THEN 0
  ELSE 10 * DigitsVal(SubSeq(s, 1, Len(s) - 1)) + DigitVal(Char(s, Len(s)))

AllDigits(s) == \A i \in 1..Len(s) : Char(s, i) \in Digits

NaN == [nan |-> TRUE, h |-> 0]
Num(h) == [nan |-> FALSE, h |-> h]

UnsignedNumber(s) ==
  LET dots == {i \in 1..Len(s) : Char(s, i) = "."}
  IN IF dots = {}
     THEN IF Len(s) >= 1 /\ AllDigits(s) THEN Num(100 * DigitsVal(s)) ELSE NaN
     ELSE IF Cardinality(dots) > 1 THEN NaN
     ELSE LET p == CHOOSE i \in dots : TRUE
              ip == SubSeq(s, 1, p - 1)
              fp == SubSeq(s, p + 1, Len(s))
          IN IF /\ AllDigits(ip) /\ AllDigits(fp)
                /\ Len(ip) + Len(fp) >= 1 /\ Len(fp) <= 2
             THEN Num(100 * DigitsVal(ip)
                      + (IF Len(fp) = 1 THEN 10 ELSE 1) * DigitsVal(fp))
             ELSE NaN

CoerceNumber(v) ==
  IF v.t = "null" THEN Num(0)
  ELSE IF v.t = "undefined" THEN NaN
  ELSE IF v.s = "" THEN Num(0)
  ELSE IF Char(v.s, 1) = "-"
       THEN LET u == UnsignedNumber(SubSeq(v.s, 2, Len(v.s)))
            IN IF u.nan THEN NaN ELSE Num(0 - u.h)
       ELSE UnsignedNumber(v.s)

\* z.coerce.number().gt(0, {message})
ZAmount(v) ==
  LET n == CoerceNumber(v)
  IN IF n.nan THEN <<NanMsg>>
     ELSE IF n.h > 0 THEN <<>>
     ELSE <<"Please enter an amount greater than $0.">>

\* ------------------------------------------------------------------ schemas
\* A schema is the base object schema it was derived from and the fields
\* it still has.
UserSchema ==
  [base |-> "User", fields |-> {"id", "name", "email", "password", "created_at"}]
InvoiceFormSchema ==
  [base |-> "Invoice", fields |-> {"id", "customerId", "amount", "status", "date"}]
CustomerFormSchema ==
  [base |-> "Customer", fields |-> {"id", "name", "email", "image"}]

\* schema.omit({k: true, ...})
Omit(schema, keys) == [schema EXCEPT !.fields = @ \ keys]

CreateCustomer == Omit(CustomerFormSchema, {"id"})
CreateInvoice == Omit(InvoiceFormSchema, {"id", "date"})
CreateUser == Omit(UserSchema, {"id", "created_at"})
UpdateInvoice == Omit(InvoiceFormSchema, {"id", "date"})

\* The issues the field's rule raises on a value, in order.
FieldIssues(base, f, v) ==
  CASE base = "User" /\ f = "email" -> ZEmail(v, InvalidEmailMsg)
    [] base = "User" /\ f = "password" -> ZStringMin(v, 8, MinPasswordMsg)
    [] base = "Invoice" /\ f = "customerId" -> TypeIssue(v, "Please select a customer.")
    [] base = "Invoice" /\ f = "amount" -> ZAmount(v)
    [] base = "Invoice" /\ f = "status" -> ZStatus(v)
    [] base = "Customer" /\ f = "name" -> ZStringMin(v, 4, "Please enter your full name.")
    [] base = "Customer" /\ f = "email" -> ZEmail(v, "Please enter a valid email address.")
    [] base = "Customer" /\ f = "image" -> ZStringOptional(v)
    [] OTHER -> ZString(v)

\* schema.safeParse(obj) followed by error.flatten().fieldErrors: the fields
\* of the schema that raised issues, each with its messages. A key the object
\* does not have is undefined. The parse succeeded iff no field is listed.
SafeParse(schema, obj) ==
  LET Val(f) == IF f \in DOMAIN obj THEN obj[f] ELSE Undefined
      bad == {f \in schema.fields : FieldIssues(schema.base, f, Val(f)) # <<>>}
  IN [f \in bad |-> FieldIssues(schema.base, f, Val(f))]

Success(fieldErrors) == DOMAIN fieldErrors = {}

\* ------------------------------------------------------------------ inputs
CustomerIds == {"", "c1"}
Amounts == {"", "0", "12.50", "-5", "abc"}
Statuses == {"pending", "paid", "draft"}
Names == {"Bob", "Jane Doe"}
Emails == {"jane@x.com", "jane.x.com"}
Images == {"/jane.png"}
Passwords == {"short", "longpassword"}
\* Row ids handed to update and delete; row 1 exists initially, row 2 not.
Ids == {1, 2}

\* Every submission over the given keys: each key absent or one of its values.
Forms(V) ==
  UNION { {fd \in [D -> UNION {V[k] : k \in D}] : \A k \in D : fd[k] \in V[k]}
          : D \in SUBSET (DOMAIN V) }

InvoiceForms ==
  Forms([customerId |-> CustomerIds, amount |-> Amounts, status |-> Statuses])
CustomerForms == Forms([name |-> Names, email |-> Emails, image |-> Images])
UserForms == Forms([name |-> Names, email |-> Emails, password |-> Passwords])
NoForm == << >>

Ops ==
  {"createInvoice", "updateInvoice", "deleteInvoice", "createCustomer",
   "updateCustomer", "deleteCustomer", "createUser", "authenticate"}

FormsOf(op) ==
  CASE op \in {"createInvoice", "updateInvoice"} -> InvoiceForms
    [] op \in {"createCustomer", "updateCustomer"} -> CustomerForms
    [] op \in {"createUser", "authenticate"} -> UserForms
    [] OTHER -> {NoForm}

IdsOf(op) ==
  IF op \in {"updateInvoice", "deleteInvoice", "updateCustomer", "deleteCustomer"}
  THEN Ids ELSE {0}

\* What the identity provider's signIn can do: resolve, raise an AuthError of
\* some type, or raise an error that is not an AuthError.
SignInOutcomes ==
  { [cls |-> "none", type |-> ""],
    [cls |-> "AuthError", type |-> "CredentialsSignin"],
    [cls |-> "AuthError", type |-> "CallbackRouteError"],
    [cls |-> "Error", type |-> "NEXT_REDIRECT"],
    [cls |-> "Error", type |-> "TypeError"] }

Tables == {"invoices", "customers", "users"}
Paths == {"/dashboard/invoices", "/dashboard/customers", "/dashboard"}

\* ------------------------------------------------------------------ state
VARIABLES
  pc,     \* where each invocation stands: idle, hashing, sqlSent, sqlSettled,
          \* signingIn, done
  call,   \* the handler invoked, its id argument and its formData
  sql,    \* the invocation's statement and how the storage settled it
  out,    \* what the invocation gave its caller: a return value, a redirect
          \* or a raised error
  log,    \* the calls the invocation made, in order
  auth,   \* the promise of the invocation's authenticate call: its state,
          \* whether anything awaits it, how signIn settled, what it settled to
  db,     \* the tables: row ids, next generated id, number of changes applied
  cache,  \* per path, the cached view, if there is a valid one
  rd      \* the readers of the listing views

vars == <<pc, call, sql, out, log, auth, db, cache, rd>>

\* A path without a valid cached view, and a cached view computed from a
\* version of its table.
NoEntry == [valid |-> FALSE, val |-> 0]
Entry(val) == [valid |-> TRUE, val |-> val]
NoCall == [op |-> "none", id |-> 0, fd |-> NoForm]
NoStmt == [state |-> "none", kind |-> "", table |-> "", id |-> 0, cents |-> 0, ver |-> 0]
NoError == [cls |-> "none", type |-> ""]
Pending ==
  [kind |-> "pending", shape |-> "", hasErrors |-> FALSE, errors |-> << >>,
   message |-> "", path |-> "", error |-> NoError]
NoAuth ==
  [state |-> "none", awaited |-> FALSE, signedIn |-> NoError, value |-> "",
   error |-> NoError]
IdleReader ==
  [pc |-> "idle", path |-> "", need |-> 0, val |-> 0, hit |-> FALSE, stale |-> FALSE]

\* return {errors, message}
ReturnErrors(fieldErrors, message) ==
  [Pending EXCEPT !.kind = "return", !.shape = "object", !.hasErrors = TRUE,
                  !.errors = fieldErrors, !.message = message]
\* return {message}
ReturnMessage(message) ==
  [Pending EXCEPT !.kind = "return", !.shape = "object", !.message = message]
\* return 'text' and return undefined
ReturnString(text) == [Pending EXCEPT !.kind = "return", !.shape = "string", !.message = text]
ReturnUndefined == [Pending EXCEPT !.kind = "return", !.shape = "undefined"]
\* redirect(path) raises the framework's redirect signal out of the handler.
Redirected(path) == [Pending EXCEPT !.kind = "redirect", !.path = path]
Thrown(e) == [Pending EXCEPT !.kind = "throw", !.error = e]

Ev(e, a) == [ev |-> e, arg |-> a]
Stmt(kind, table, id, cents) ==
  [state |-> "sent", kind |-> kind, table |-> table, id |-> id, cents |-> cents, ver |-> 0]

Init ==
  /\ pc = [i \in Invs |-> "idle"]
  /\ call = [i \in Invs |-> NoCall]
  /\ sql = [i \in Invs |-> NoStmt]
  /\ out = [i \in Invs |-> Pending]
  /\ log = [i \in Invs |-> << >>]
  /\ auth = [i \in Invs |-> NoAuth]
  /\ db = [t \in Tables |->
             IF t = "users" THEN [rows |-> {}, seq |-> 1, ver |-> 0]
             ELSE [rows |-> {1}, seq |-> 2, ver |-> 0]]
  /\ cache = [p \in Paths |-> NoEntry]
  /\ rd = [r \in Readers |-> IdleReader]

\* ------------------------------------------------------------------ steps
\* The invocation has not been made; invocations are numbered in the order
\* they are made.
Idle(i) == pc[i] = "idle" /\ \A j \in 1..(i - 1) : pc[j] # "idle"

\* Submit without the early return on a failed parse.
SubmitUnchecked(i, op, id, fd, fieldErrors, missingMsg, stmt) ==
  /\ Idle(i)
  /\ call' = [call EXCEPT ![i] = [op |-> op, id |-> id, fd |-> fd]]
  /\ sql' = [sql EXCEPT ![i] = stmt]
  /\ pc' = [pc EXCEPT ![i] = "sqlSent"]
  /\ log' = [log EXCEPT ![i] = <<Ev("validated", ""), Ev("sql", stmt.kind)>>]
  /\ UNCHANGED <<out, auth, db, cache, rd>>

\* A handler from its call to its first await: a create or update handler
\* parses the submission, returns the field errors when the parse failed and
\* otherwise issues its statement and awaits it.
Submit(i, op, id, fd, fieldErrors, missingMsg, stmt) ==
  /\ Idle(i)
  /\ call' = [call EXCEPT ![i] = [op |-> op, id |-> id, fd |-> fd]]
  /\ IF ~Success(fieldErrors)
     THEN /\ out' = [out EXCEPT ![i] = ReturnErrors(fieldErrors, missingMsg)]
          /\ pc' = [pc EXCEPT ![i] = "done"]
          /\ log' = [log EXCEPT ![i] = <<Ev("invalid", "")>>]
          /\ sql' = sql
     ELSE /\ sql' = [sql EXCEPT ![i] = stmt]
          /\ pc' = [pc EXCEPT ![i] = "sqlSent"]
          /\ log' = [log EXCEPT ![i] = <<Ev("validated", ""), Ev("sql", stmt.kind)>>]
          /\ out' = out
  /\ UNCHANGED <<auth, db, cache, rd>>

\* Settle with redirect called before revalidatePath, which then never runs.
SettleRedirectFirst(i, op, dbErrMsg, path, target) ==
  /\ pc[i] = "sqlSettled"
  /\ call[i].op = op
  /\ pc' = [pc EXCEPT ![i] = "done"]
  /\ IF sql[i].state = "error"
     THEN /\ out' = [out EXCEPT ![i] = ReturnMessage(dbErrMsg)]
          /\ log' = [log EXCEPT ![i] = @ \o <<Ev("caught", "")>>]
     ELSE /\ out' = [out EXCEPT ![i] = Redirected(target)]
          /\ log' = [log EXCEPT ![i] = @ \o <<Ev("redirect", target)>>]
  /\ UNCHANGED <<call, sql, auth, db, cache, rd>>

\* Settle without the try/catch around the statement.
SettleUncaught(i, op, dbErrMsg, path, target) ==
  /\ pc[i] = "sqlSettled"
  /\ call[i].op = op
  /\ pc' = [pc EXCEPT ![i] = "done"]
  /\ IF sql[i].state = "error"
     THEN /\ out' = [out EXCEPT ![i] = Thrown([cls |-> "Error", type |-> "DatabaseError"])]
          /\ log' = log
          /\ cache' = cache
     ELSE /\ cache' = [cache EXCEPT ![path] = NoEntry]
          /\ out' = [out EXCEPT ![i] = Redirected(target)]
          /\ log' = [log EXCEPT ![i] =
                       @ \o <<Ev("revalidate", path), Ev("redirect", target)>>]
  /\ UNCHANGED <<call, sql, auth, db, rd>>

\* Settle revalidating the dashboard root instead of the listing path.
SettleWrongPath(i, op, dbErrMsg, path, target) ==
  /\ pc[i] = "sqlSettled"
  /\ call[i].op = op
  /\ pc' = [pc EXCEPT ![i] = "done"]
  /\ IF sql[i].state = "error"
     THEN /\ out' = [out EXCEPT ![i] = ReturnMessage(dbErrMsg)]
          /\ log' = [log EXCEPT ![i] = @ \o <<Ev("caught", "")>>]
          /\ cache' = cache
     ELSE /\ cache' = [cache EXCEPT !["/dashboard"] = NoEntry]
          /\ out' = [out EXCEPT ![i] = Redirected(target)]
          /\ log' = [log EXCEPT ![i] =
                       @ \o <<Ev("revalidate", "/dashboard"), Ev("redirect", target)>>]
  /\ UNCHANGED <<call, sql, auth, db, rd>>

\* A create or update handler after its statement settled: the catch clause
\* returns the database error message; otherwise the path is revalidated and
\* the handler redirects.
Settle(i, op, dbErrMsg, path, target) ==
  /\ pc[i] = "sqlSettled"
  /\ call[i].op = op
  /\ pc' = [pc EXCEPT ![i] = "done"]
  /\ IF sql[i].state = "error"
     THEN /\ out' = [out EXCEPT ![i] = ReturnMessage(dbErrMsg)]
          /\ log' = [log EXCEPT ![i] = @ \o <<Ev("caught", "")>>]
          /\ cache' = cache
     ELSE /\ cache' = [cache EXCEPT ![path] = NoEntry]
          /\ out' = [out EXCEPT ![i] = Redirected(target)]
          /\ log' = [log EXCEPT ![i] =
                       @ \o <<Ev("revalidate", path), Ev("redirect", target)>>]
  /\ UNCHANGED <<call, sql, auth, db, rd>>

\* amount * 100 of the parsed amount.
AmountInCents(fd) == CoerceNumber(Get(fd, "amount")).h

InvoiceObj(fd) ==
  [customerId |-> Get(fd, "customerId"), amount |-> Get(fd, "amount"),
   status |-> Get(fd, "status")]
CustomerObj(fd) ==
  [name |-> Get(fd, "name"), email |-> Get(fd, "email"), image |-> Get(fd, "image")]
UserObj(fd) ==
  [name |-> Get(fd, "name"), email |-> Get(fd, "email"),
   password |-> Get(fd, "password")]

\* Each handler is two definitions: the handler from its call to the await
\* of its statement, and (Settled) the handler from that await to its end.
createInvoice(i, F) ==
  \E fd \in F :
    Submit(i, "createInvoice", 0, fd, SafeParse(CreateInvoice, InvoiceObj(fd)),
           "Missing Fields. Failed to Create Invoice.",
           Stmt("INSERT", "invoices", 0, AmountInCents(fd)))

createInvoiceSettled(i) ==
  Settle(i, "createInvoice", "Database Error: Failed to Create Invoice.",
         "/dashboard/invoices", "/dashboard/invoices")

updateInvoice(i, I, F) ==
  \E id \in I, fd \in F :
    Submit(i, "updateInvoice", id, fd, SafeParse(UpdateInvoice, InvoiceObj(fd)),
           "Missing Fields. Failed to Update Invoice.",
           Stmt("UPDATE", "invoices", id, AmountInCents(fd)))

updateInvoiceSettled(i) ==
  Settle(i, "updateInvoice", "Database Error: Failed to Update Invoice.",
         "/dashboard/invoices", "/dashboard/invoices")

createCustomer(i, F) ==
  \E fd \in F :
    Submit(i, "createCustomer", 0, fd, SafeParse(CreateCustomer, CustomerObj(fd)),
           "Missing Fields. Failed to Create Customer.",
           Stmt("INSERT", "customers", 0, 0))

createCustomerSettled(i) ==
  Settle(i, "createCustomer", "Database Error: Failed to Create Customer.",
         "/dashboard/customers", "/dashboard/customers")

updateCustomer(i, I, F) ==
  \E id \in I, fd \in F :
    Submit(i, "updateCustomer", id, fd,
           SafeParse(CustomerFormSchema, CustomerObj(fd)),
           "Missing Fields. Failed to Update Customer.",
           Stmt("UPDATE", "customers", id, 0))

updateCustomerSettled(i) ==
  Settle(i, "updateCustomer", "Database Error: Failed to Update Customer.",
         "/dashboard/customers", "/dashboard/customers")

\* A delete handler validates nothing: it issues its statement at once.
Delete(i, op, id, table) ==
  /\ Idle(i)
  /\ call' = [call EXCEPT ![i] = [op |-> op, id |-> id, fd |-> NoForm]]
  /\ sql' = [sql EXCEPT ![i] = Stmt("DELETE", table, id, 0)]
  /\ pc' = [pc EXCEPT ![i] = "sqlSent"]
  /\ log' = [log EXCEPT ![i] = <<Ev("sql", "DELETE")>>]
  /\ UNCHANGED <<out, auth, db, cache, rd>>

\* DeleteSettle without the catch clause.
DeleteSettleUncaught(i, op, okMsg, dbErrMsg, path) ==
  /\ pc[i] = "sqlSettled"
  /\ call[i].op = op
  /\ pc' = [pc EXCEPT ![i] = "done"]
  /\ IF sql[i].state = "error"
     THEN /\ out' = [out EXCEPT ![i] = Thrown([cls |-> "Error", type |-> "DatabaseError"])]
          /\ log' = log
          /\ cache' = cache
     ELSE /\ cache' = [cache EXCEPT ![path] = NoEntry]
          /\ out' = [out EXCEPT ![i] = ReturnMessage(okMsg)]
          /\ log' = [log EXCEPT ![i] = @ \o <<Ev("revalidate", path)>>]
  /\ UNCHANGED <<call, sql, auth, db, rd>>

\* A delete handler after its statement settled: inside the try the path is
\* revalidated and the success message returned; the catch clause returns the
\* database error message.
DeleteSettle(i, op, okMsg, dbErrMsg, path) ==
  /\ pc[i] = "sqlSettled"
  /\ call[i].op = op
  /\ pc' = [pc EXCEPT ![i] = "done"]
  /\ IF sql[i].state = "error"
     THEN /\ out' = [out EXCEPT ![i] = ReturnMessage(dbErrMsg)]
          /\ log' = [log EXCEPT ![i] = @ \o <<Ev("caught", "")>>]
          /\ cache' = cache
     ELSE /\ cache' = [cache EXCEPT ![path] = NoEntry]
          /\ out' = [out EXCEPT ![i] = ReturnMessage(okMsg)]
          /\ log' = [log EXCEPT ![i] = @ \o <<Ev("revalidate", path)>>]
  /\ UNCHANGED <<call, sql, auth, db, rd>>

deleteInvoice(i, I) == \E id \in I : Delete(i, "deleteInvoice", id, "invoices")

deleteInvoiceSettled(i) ==
  DeleteSettle(i, "deleteInvoice", "Deleted Invoice.",
               "Database Error: Failed to Delete Invoice.", "/dashboard/invoices")

deleteCustomer(i, I) == \E id \in I : Delete(i, "deleteCustomer", id, "customers")

deleteCustomerSettled(i) ==
  DeleteSettle(i, "deleteCustomer", "Deleted Customer.",
               "Database Error: Failed to Delete Customer.", "/dashboard/customers")

\* authenticate with a catch clause that turns every error into a message.
authenticateSwallow(signedIn) ==
  IF signedIn.cls = "none" THEN ReturnUndefined
  ELSE IF signedIn.cls = "AuthError" /\ signedIn.type = "CredentialsSignin"
       THEN ReturnString("Invalid credentials.")
       ELSE ReturnString("Something went wrong.")

\* authenticate from the settling of signIn on: what the function's promise
\* settles to. An AuthError is turned into a message by its type, any other
\* error is thrown again, and without an error the function returns nothing.
authenticate(signedIn) ==
  IF signedIn.cls = "none" THEN ReturnUndefined
  ELSE IF signedIn.cls = "AuthError"
       THEN IF signedIn.type = "CredentialsSignin"
            THEN ReturnString("Invalid credentials.")
            ELSE ReturnString("Something went wrong.")
       ELSE Thrown(signedIn)

\* authenticate invoked as a server action: it calls signIn and awaits it.
authenticateCall(i, F) ==
  \E fd \in F :
    /\ Idle(i)
    /\ call' = [call EXCEPT ![i] = [op |-> "authenticate", id |-> 0, fd |-> fd]]
    /\ pc' = [pc EXCEPT ![i] = "signingIn"]
    /\ auth' = [auth EXCEPT ![i] = [NoAuth EXCEPT !.state = "pending", !.awaited = TRUE]]
    /\ log' = [log EXCEPT ![i] = <<Ev("signIn", "credentials")>>]
    /\ UNCHANGED <<sql, out, db, cache, rd>>

\* The promise of an authenticate call once signIn settled with o.
Settled(a, o) ==
  LET r == authenticate(o)
  IN [a EXCEPT !.state = IF r.kind = "throw" THEN "rejected" ELSE "fulfilled",
               !.signedIn = o, !.value = r.message, !.error = r.error]

\* signIn settles and the awaiting authenticate runs to its end: the server
\* action's caller gets what authenticate returned or threw.
authenticateSettled(i) ==
  \E o \in SignInOutcomes :
    /\ pc[i] = "signingIn"
    /\ pc' = [pc EXCEPT ![i] = "done"]
    /\ out' = [out EXCEPT ![i] = authenticate(o)]
    /\ auth' = [auth EXCEPT ![i] = Settled(@, o)]
    /\ log' = [log EXCEPT ![i] = @ \o <<Ev("authSettled", o.cls)>>]
    /\ UNCHANGED <<call, sql, db, cache, rd>>

\* createUser up to its first await: the parse, then bcrypt.hash is awaited.
createUser(i, F) ==
  \E fd \in F :
    LET fieldErrors == SafeParse(CreateUser, UserObj(fd))
    IN /\ Idle(i)
       /\ call' = [call EXCEPT ![i] = [op |-> "createUser", id |-> 0, fd |-> fd]]
       /\ IF ~Success(fieldErrors)
          THEN /\ out' = [out EXCEPT ![i] =
                            ReturnErrors(fieldErrors,
                                         "Missing Fields. Failed to Create User.")]
               /\ pc' = [pc EXCEPT ![i] = "done"]
               /\ log' = [log EXCEPT ![i] = <<Ev("invalid", "")>>]
          ELSE /\ pc' = [pc EXCEPT ![i] = "hashing"]
               /\ log' = [log EXCEPT ![i] = <<Ev("validated", ""), Ev("hash", "")>>]
               /\ out' = out
       /\ UNCHANGED <<sql, auth, db, cache, rd>>

\* The hash is there: the credentials are printed and the INSERT is issued.
createUserHashed(i) ==
  /\ pc[i] = "hashing"
  /\ sql' = [sql EXCEPT ![i] = Stmt("INSERT", "users", 0, 0)]
  /\ pc' = [pc EXCEPT ![i] = "sqlSent"]
  /\ log' = [log EXCEPT ![i] = @ \o <<Ev("print", ""), Ev("sql", "INSERT")>>]
  /\ UNCHANGED <<call, out, auth, db, cache, rd>>

\* createUser after its statement settled. On success authenticate is called
\* and its promise dropped: authenticate runs up to its await of signIn, and
\* createUser goes on at once to revalidate and redirect.
createUserSettled(i) ==
  /\ pc[i] = "sqlSettled"
  /\ call[i].op = "createUser"
  /\ pc' = [pc EXCEPT ![i] = "done"]
  /\ IF sql[i].state = "error"
     THEN /\ out' = [out EXCEPT ![i] =
                       ReturnMessage("Database Error: Failed to Create User.")]
          /\ log' = [log EXCEPT ![i] = @ \o <<Ev("caught", "")>>]
          /\ UNCHANGED <<cache, auth>>
     ELSE /\ auth' = [auth EXCEPT ![i] = [NoAuth EXCEPT !.state = "pending"]]
          /\ cache' = [cache EXCEPT !["/dashboard"] = NoEntry]
          /\ out' = [out EXCEPT ![i] = Redirected("/dashboard")]
          /\ log' = [log EXCEPT ![i] =
                       @ \o <<Ev("authenticate", ""), Ev("signIn", "credentials"),
                              Ev("revalidate", "/dashboard"),
                              Ev("redirect", "/dashboard")>>]
  /\ UNCHANGED <<call, sql, db, rd>>

\* The signIn awaited by the dropped authenticate call settles: the promise
\* of authenticate is fulfilled or rejected, and nothing awaits it or has a
\* handler on it.
authenticateDropped(i) ==
  \E o \in SignInOutcomes :
    /\ auth[i].state = "pending"
    /\ ~auth[i].awaited
    /\ pc[i] = "done"
    /\ auth' = [auth EXCEPT ![i] = Settled(@, o)]
    /\ log' = [log EXCEPT ![i] = @ \o <<Ev("authSettled", o.cls)>>]
    /\ UNCHANGED <<pc, call, sql, out, db, cache, rd>>

\* The continuation of whichever handler awaits the settled statement.
Resume(i) ==
  /\ pc[i] = "sqlSettled"
  /\ CASE call[i].op = "createInvoice" -> createInvoiceSettled(i)
       [] call[i].op = "updateInvoice" -> updateInvoiceSettled(i)
       [] call[i].op = "deleteInvoice" -> deleteInvoiceSettled(i)
       [] call[i].op = "createCustomer" -> createCustomerSettled(i)
       [] call[i].op = "updateCustomer" -> updateCustomerSettled(i)
       [] call[i].op = "deleteCustomer" -> deleteCustomerSettled(i)
       [] call[i].op = "createUser" -> createUserSettled(i)

\* ------------------------------------------------------------------ storage
\* The table after the statement: an INSERT adds a row under a generated id,
\* an UPDATE or DELETE acts on the row with the id, if there is one.
Apply(t, stmt) ==
  CASE stmt.kind = "INSERT" ->
         [rows |-> t.rows \cup {t.seq}, seq |-> t.seq + 1, ver |-> t.ver + 1]
    [] stmt.kind = "UPDATE" ->
         IF stmt.id \in t.rows THEN [t EXCEPT !.ver = @ + 1] ELSE t
    [] stmt.kind = "DELETE" ->
         IF stmt.id \in t.rows
         THEN [t EXCEPT !.rows = @ \ {stmt.id}, !.ver = @ + 1] ELSE t

\* sql`...`: the storage runs the statement, or fails it with an error.
SqlOk(i) ==
  /\ pc[i] = "sqlSent"
  /\ db' = [db EXCEPT ![sql[i].table] = Apply(@, sql[i])]
  /\ sql' = [sql EXCEPT ![i].state = "ok", ![i].ver = db'[sql[i].table].ver]
  /\ pc' = [pc EXCEPT ![i] = "sqlSettled"]
  /\ log' = [log EXCEPT ![i] = @ \o <<Ev("sqlOk", "")>>]
  /\ UNCHANGED <<call, out, auth, cache, rd>>

SqlError(i) ==
  /\ pc[i] = "sqlSent"
  /\ sql' = [sql EXCEPT ![i].state = "error"]
  /\ pc' = [pc EXCEPT ![i] = "sqlSettled"]
  /\ log' = [log EXCEPT ![i] = @ \o <<Ev("sqlErr", "")>>]
  /\ UNCHANGED <<call, out, auth, db, cache, rd>>

\* ------------------------------------------------------------------ readers
\* The listing views and the table each one shows.
ListingPaths == {"/dashboard/invoices", "/dashboard/customers"}
TableOf(p) == IF p = "/dashboard/invoices" THEN "invoices" ELSE "customers"

Max(S) == IF S = {} THEN 0 ELSE CHOOSE x \in S : \A y \in S : y <= x

\* The invocations that have completed after their statement took effect.
Completed(i) == pc[i] = "done" /\ sql[i].state = "ok"

\* The newest table version written by a completed invocation on the table.
Newest(t) == Max({sql[i].ver : i \in {j \in Invs : Completed(j) /\ sql[j].table = t}})

\* A read of a listing begins; reads are numbered in the order they first
\* begin. A valid cached view is served as it is; without one the view is
\* rendered anew. The read notes, as history, the newest completed mutation
\* it began after and whether what it served is older.
ReadBegin(r) ==
  \E p \in ListingPaths :
    /\ rd[r].pc \in {"idle", "done"}
    /\ \A q \in 1..(r - 1) : rd[q].pc # "idle"
    /\ rd' = [rd EXCEPT ![r] =
                IF cache[p].valid
                THEN [IdleReader EXCEPT !.pc = "done", !.path = p, !.hit = TRUE,
                                        !.stale = cache[p].val < Newest(TableOf(p))]
                ELSE [IdleReader EXCEPT !.pc = "rendering", !.path = p,
                                        !.need = Newest(TableOf(p))]]
    /\ UNCHANGED <<pc, call, sql, out, log, auth, db, cache>>

\* The render queries the table.
ReadQuery(r) ==
  /\ rd[r].pc = "rendering"
  /\ rd' = [rd EXCEPT ![r].pc = "queried", ![r].val = db[TableOf(rd[r].path)].ver]
  /\ UNCHANGED <<pc, call, sql, out, log, auth, db, cache>>

\* The rendered view is served and stored as the path's cached view.
ReadStore(r) ==
  /\ rd[r].pc = "queried"
  /\ cache' = [cache EXCEPT ![rd[r].path] = Entry(rd[r].val)]
  /\ rd' = [rd EXCEPT ![r] =
              [IdleReader EXCEPT !.pc = "done", !.path = rd[r].path,
                                 !.stale = rd[r].val < rd[r].need]]
  /\ UNCHANGED <<pc, call, sql, out, log, auth, db>>

\* ------------------------------------------------------------------ specs
Handlers(i) ==
  \/ createInvoice(i, InvoiceForms)
  \/ updateInvoice(i, Ids, InvoiceForms)
  \/ deleteInvoice(i, Ids)
  \/ createCustomer(i, CustomerForms)
  \/ updateCustomer(i, Ids, CustomerForms)
  \/ deleteCustomer(i, Ids)
  \/ createUser(i, UserForms)
  \/ createUserHashed(i)
  \/ authenticateDropped(i)
  \/ authenticateCall(i, UserForms)
  \/ authenticateSettled(i)
  \/ SqlOk(i)
  \/ SqlError(i)
  \/ Resume(i)

\* One invocation of any handler on any submission.
Next == Handlers(1)

Spec == Init /\ [][Next]_vars

\* Submissions that pass every field rule and the id of the initial row, for
\* the invocations that run together with readers.
SampleIds == {1}
SampleInvoiceForms == {[customerId |-> "c1", amount |-> "12.50", status |-> "pending"]}
SampleCustomerForms == {[name |-> "Jane Doe", email |-> "jane@x.com", image |-> "/jane.png"]}

Mutations(i) ==
  \/ createInvoice(i, SampleInvoiceForms)
  \/ updateInvoice(i, SampleIds, SampleInvoiceForms)
  \/ deleteInvoice(i, SampleIds)
  \/ createCustomer(i, SampleCustomerForms)
  \/ updateCustomer(i, SampleIds, SampleCustomerForms)
  \/ deleteCustomer(i, SampleIds)
  \/ SqlOk(i)
  \/ SqlError(i)
  \/ Resume(i)

Reads(r) == ReadBegin(r) \/ ReadQuery(r) \/ ReadStore(r)

\* Invoice and customer mutations in flight together, and readers of the
\* listings.
ConcNext == (\E i \in Invs : Mutations(i)) \/ (\E r \in Readers : Reads(r))

ConcSpec == Init /\ [][ConcNext]_vars

\* ------------------------------------------------------------------ claims
CreateUpdate ==
  {"createInvoice", "updateInvoice", "createCustomer", "updateCustomer", "createUser"}
Deletes == {"deleteInvoice", "deleteCustomer"}

Verb(op) ==
  CASE op \in {"createInvoice", "createCustomer", "createUser"} -> "Create"
    [] op \in {"updateInvoice", "updateCustomer"} -> "Update"
    [] op \in Deletes -> "Delete"
Entity(op) ==
  CASE op \in {"createInvoice", "updateInvoice", "deleteInvoice"} -> "Invoice"
    [] op \in {"createCustomer", "updateCustomer", "deleteCustomer"} -> "Customer"
    [] op = "createUser" -> "User"
MissingMsg(op) == "Missing Fields. Failed to " \o Verb(op) \o " " \o Entity(op) \o "."
DatabaseMsg(op) == "Database Error: Failed to " \o Verb(op) \o " " \o Entity(op) \o "."
ListingOf(op) ==
  IF Entity(op) = "Invoice" THEN "/dashboard/invoices" ELSE "/dashboard/customers"

\* The field errors of the parse the handler of a call runs on its submission.
ParsedBy(c) ==
  CASE c.op = "createInvoice" -> SafeParse(CreateInvoice, InvoiceObj(c.fd))
    [] c.op = "updateInvoice" -> SafeParse(UpdateInvoice, InvoiceObj(c.fd))
    [] c.op = "createCustomer" -> SafeParse(CreateCustomer, CustomerObj(c.fd))
    [] c.op = "updateCustomer" -> SafeParse(CustomerFormSchema, CustomerObj(c.fd))
    [] c.op = "createUser" -> SafeParse(CreateUser, UserObj(c.fd))

Has(i, e) == \E k \in 1..Len(log[i]) : log[i][k].ev = e
Count(i, e) == Cardinality({k \in 1..Len(log[i]) : log[i][k].ev = e})
\* Every b of the invocation's log has an a before it.
Before(i, a, b) ==
  \A k \in 1..Len(log[i]) :
    log[i][k].ev = b => \E j \in 1..(k - 1) : log[i][j].ev = a

\* C1: in a create or update handler a submission that fails validation makes
\* the handler return at once the field errors and the message "Missing
\* Fields. Failed to <Create|Update> <Entity>."; the invocation issues no
\* statement, revalidates no path and does not redirect.
C1_ValidationFailureAborts ==
  \A i \in Invs :
    (call[i].op \in CreateUpdate /\ ~Success(ParsedBy(call[i]))) =>
      /\ pc[i] = "done"
      /\ out[i] = ReturnErrors(ParsedBy(call[i]), MissingMsg(call[i].op))
      /\ log[i] = <<Ev("invalid", "")>>
      /\ sql[i] = NoStmt
      /\ auth[i] = NoAuth

C1_Witness ==
  \E i \in Invs :
    /\ call[i].op = "createUser"
    /\ out[i].hasErrors
    /\ "password" \in DOMAIN out[i].errors
    /\ out[i].message = "Missing Fields. Failed to Create User."

\* C2: within one invocation of a create or update handler validation comes
\* before the statement is issued, the statement's success before the path is
\* revalidated, and the revalidation before the redirect; a handler that
\* redirected has made every earlier step.
C2_OrderWithinInvocation ==
  \A i \in Invs :
    call[i].op \in CreateUpdate =>
      /\ Before(i, "validated", "sql")
      /\ Before(i, "sql", "sqlOk")
      /\ Before(i, "sqlOk", "revalidate")
      /\ Before(i, "revalidate", "redirect")
      /\ out[i].kind = "redirect" => Has(i, "redirect")

C2_Witness ==
  \E i \in Invs :
    /\ call[i].op = "updateInvoice"
    /\ out[i].kind = "redirect"
    /\ Has(i, "revalidate")

\* C3: when the statement of a handler fails, the error is caught: the
\* handler returns only the message "Database Error: Failed to
\* <Create|Update|Delete> <Entity>.", raises nothing, revalidates no path,
\* does not redirect and issues the statement once.
C3_PersistenceErrorCaught ==
  \A i \in Invs :
    sql[i].state = "error" =>
      /\ Count(i, "sql") = 1
      /\ ~Has(i, "revalidate") /\ ~Has(i, "redirect") /\ ~Has(i, "authenticate")
      /\ pc[i] \in {"sqlSettled", "done"}
      /\ pc[i] = "sqlSettled" => out[i] = Pending
      /\ pc[i] = "done" => out[i] = ReturnMessage(DatabaseMsg(call[i].op))

C3_Witness ==
  \E i \in Invs :
    /\ call[i].op = "createInvoice"
    /\ sql[i].state = "error"
    /\ out[i].message = "Database Error: Failed to Create Invoice."

\* C4: a customer creation whose name has at least 4 characters, whose email
\* is valid and which carries no image field passes validation, issues one
\* INSERT into customers, revalidates /dashboard/customers and redirects
\* there.
C4_CreateCustomerWithoutImage ==
  \A i \in Invs :
    ( /\ call[i].op = "createCustomer"
      /\ DOMAIN call[i].fd = {"name", "email"}
      /\ Len(call[i].fd["name"]) >= 4
      /\ IsEmail(call[i].fd["email"]) ) =>
      /\ ~out[i].hasErrors
      /\ sql[i].kind = "INSERT" /\ sql[i].table = "customers"
      /\ Count(i, "sql") = 1
      /\ (pc[i] = "done" /\ sql[i].state = "ok") =>
           /\ out[i] = Redirected("/dashboard/customers")
           /\ Has(i, "revalidate")

\* C5: in createUser the authenticate call has completed before /dashboard
\* is revalidated and before the redirect; the redirect never happens while
\* the call is pending, and a failure of the call is observed by createUser.
C5_AuthenticateBeforeRedirect ==
  \A i \in Invs :
    call[i].op = "createUser" =>
      /\ Before(i, "authSettled", "revalidate")
      /\ Before(i, "authSettled", "redirect")
      /\ out[i].kind = "redirect" => auth[i].state \in {"fulfilled", "rejected"}
      /\ auth[i].state = "rejected" => auth[i].awaited

\* C6: an invoice submission whose customerId is absent or the empty string
\* fails validation with "Please select a customer." under customerId, and
\* no statement is issued.
C6_CustomerIdRequired ==
  \A i \in Invs :
    ( /\ call[i].op \in {"createInvoice", "updateInvoice"}
      /\ ("customerId" \notin DOMAIN call[i].fd \/ call[i].fd["customerId"] = "") ) =>
      /\ out[i].hasErrors
      /\ "customerId" \in DOMAIN out[i].errors
      /\ \E k \in 1..Len(out[i].errors["customerId"]) :
           out[i].errors["customerId"][k] = "Please select a customer."
      /\ sql[i] = NoStmt

\* C7: authenticate returns "Invalid credentials." when signIn raises an
\* AuthError of type CredentialsSignin, "Something went wrong." when it raises
\* an AuthError of another type, and raises again, unchanged, any error that
\* is not an AuthError.
C7_AuthenticateMapsErrors ==
  \A i \in Invs :
    auth[i].state \in {"fulfilled", "rejected"} =>
      LET o == auth[i].signedIn
          direct == call[i].op = "authenticate"
      IN /\ (o.cls = "AuthError" /\ o.type = "CredentialsSignin") =>
              /\ auth[i].state = "fulfilled" /\ auth[i].value = "Invalid credentials."
              /\ direct => out[i] = ReturnString("Invalid credentials.")
         /\ (o.cls = "AuthError" /\ o.type # "CredentialsSignin") =>
              /\ auth[i].state = "fulfilled" /\ auth[i].value = "Something went wrong."
              /\ direct => out[i] = ReturnString("Something went wrong.")
         /\ o.cls = "Error" =>
              /\ auth[i].state = "rejected" /\ auth[i].error = o
              /\ direct => out[i] = Thrown(o)

C7_Witness ==
  \E i \in Invs :
    /\ call[i].op = "authenticate"
    /\ auth[i].signedIn = [cls |-> "Error", type |-> "TypeError"]
    /\ out[i].kind = "throw"

\* C8: deleteInvoice and deleteCustomer, for any id and any outcome of the
\* statement, raise nothing and never redirect: they return "Deleted
\* <Entity>." after revalidating the listing path when the DELETE succeeded
\* and "Database Error: Failed to Delete <Entity>." without a revalidation
\* when it failed.
C8_DeleteAlwaysReturns ==
  \A i \in Invs :
    call[i].op \in Deletes =>
      /\ out[i].kind \in {"pending", "return"}
      /\ ~Has(i, "redirect")
      /\ pc[i] = "done" =>
           \/ /\ sql[i].state = "ok"
              /\ out[i] = ReturnMessage("Deleted " \o Entity(call[i].op) \o ".")
              /\ log[i][Len(log[i])] = Ev("revalidate", ListingOf(call[i].op))
              /\ Before(i, "sqlOk", "revalidate")
           \/ /\ sql[i].state = "error"
              /\ out[i] = ReturnMessage(DatabaseMsg(call[i].op))
              /\ ~Has(i, "revalidate")

C8_Witness ==
  \E i \in Invs :
    /\ call[i].op = "deleteCustomer"
    /\ call[i].id \notin db["customers"].rows
    /\ call[i].id = 2
    /\ out[i] = ReturnMessage("Deleted Customer.")

\* The schema of a create or update handler with the server-generated fields
\* stripped.
Stripped(op) ==
  CASE op \in {"createInvoice", "updateInvoice"} -> Omit(InvoiceFormSchema, {"id", "date"})
    [] op \in {"createCustomer", "updateCustomer"} -> Omit(CustomerFormSchema, {"id"})
    [] op = "createUser" -> Omit(UserSchema, {"id", "created_at"})
ObjOf(c) ==
  CASE c.op \in {"createInvoice", "updateInvoice"} -> InvoiceObj(c.fd)
    [] c.op \in {"createCustomer", "updateCustomer"} -> CustomerObj(c.fd)
    [] c.op = "createUser" -> UserObj(c.fd)

\* C9: every create and update handler validates against its schema without
\* id (and date): a submission whose fields satisfy every field rule is not
\* rejected and goes on to the statement.
C9_StrippedSchemaEverywhere ==
  \A i \in Invs :
    ( /\ call[i].op \in CreateUpdate
      /\ Success(SafeParse(Stripped(call[i].op), ObjOf(call[i]))) ) =>
      /\ ~out[i].hasErrors
      /\ Has(i, "validated")

Completes(i) == pc[i] # "done" /\ pc'[i] = "done" /\ sql[i].state = "ok"

====
